---- MODULE Spec2Model ----
(***************************************************************************)
(* AES-CBC bit flipping notebook (src/aes-cbc-bit-flipping.ipynb).         *)
(*                                                                         *)
(* The notebook's globals are the state; every code cell is one action.    *)
(* Byte strings are sequences of numbers in 0..ByteMod-1.  The block size  *)
(* and the byte width are scaled down (the notebook runs AES: 16-byte      *)
(* blocks of 8-bit bytes); the block primitive is a keyed permutation of   *)
(* the blocks and its inverse.  The padder, the unpadder and the CBC       *)
(* encryptor / decryptor follow what the library calls of the notebook do: *)
(* update() hands out whole blocks and keeps the rest, finalize() settles  *)
(* the rest or raises ValueError.                                          *)
(***************************************************************************)
EXTENDS Naturals, Sequences, FiniteSets

VARIABLES key, iv, cipher, plaintext, padded_plaintext, ciphertext,
          decrypted_ciphertext, unpadded_decrypted_ciphertext,
          secret_ord, rabbit_ord, secret_rabbit_xor, altered_iv,
          pc, error, probe

vars == <<key, iv, cipher, plaintext, padded_plaintext, ciphertext,
          decrypted_ciphertext, unpadded_decrypted_ciphertext,
          secret_ord, rabbit_ord, secret_rabbit_xor, altered_iv,
          pc, error, probe>>

-----------------------------------------------------------------------------
(* Sizes *)

\* Block size in bytes, CIPHER.block_size // 8: 16 in the notebook, scaled
\* down here together with the byte width.
B == 2

\* Longest plaintext of the notebook run.
MaxLen == 2

\* Longest byte string handed to the unpadder on its own.
MaxData == 5

\* Most blocks of a ciphertext in which one bit is flipped.
MaxFlipBlocks == 3

\* Most blocks of the two plaintexts encrypted side by side.
MaxSeqBlocks == 2

-----------------------------------------------------------------------------
(* Bytes *)

RECURSIVE BitsFor(_)
\* Least w with 2^w > n: the byte is wide enough to hold every pad length 1..B.
BitsFor(n) == IF n = 0 THEN 0 ELSE 1 + BitsFor(n \div 2)

ByteBits == IF BitsFor(B) < 2 THEN 2 ELSE BitsFor(B)

ByteMod == 2 ^ ByteBits

Byte == 0 .. (ByteMod - 1)

RECURSIVE XorNat(_, _)
\* Python's ^ on two non-negative ints.
XorNat(a, b) ==
  IF a = 0 THEN b
  ELSE IF b = 0 THEN a
  ELSE (((a % 2) + (b % 2)) % 2) + 2 * XorNat(a \div 2, b \div 2)

XorTab == [a \in Byte, b \in Byte |-> XorNat(a, b)]

Min(a, b) == IF a < b THEN a ELSE b

\* [x ^ y for x, y in zip(xs, ys)]: zip stops at the shorter list.
ZipXor(xs, ys) == [i \in 1 .. Min(Len(xs), Len(ys)) |-> XorTab[xs[i], ys[i]]]

Take(s, n) == SubSeq(s, 1, Min(n, Len(s)))

Drop(s, n) == SubSeq(s, n + 1, Len(s))

Repeat(b, n) == [i \in 1 .. n |-> b]

\* Byte strings of exactly n bytes, and of at most n bytes.
BytesOfLen(n) == [1 .. n -> Byte]

BytesUpTo(n) == UNION {BytesOfLen(m) : m \in 0 .. n}

Blocks == BytesOfLen(B)

-----------------------------------------------------------------------------
(* The block primitive *)

Keys == {0, 1}

RECURSIVE ToNum(_)
ToNum(blk) == IF blk = <<>> THEN 0 ELSE Head(blk) + ByteMod * ToNum(Tail(blk))

RECURSIVE FromNum(_, _)
FromNum(n, len) ==
  IF len = 0 THEN <<>> ELSE <<n % ByteMod>> \o FromNum(n \div ByteMod, len - 1)

\* One block under the key: a keyed permutation of the blocks that mixes the
\* bytes of the block (multiplication by an odd number modulo ByteMod^B).
EncryptBlockFn(k, blk) ==
  FromNum((((2 * k + 3) * ToNum(blk)) + (5 * k) + 7) % (ByteMod ^ B), B)

EncTab == [k \in Keys, blk \in Blocks |-> EncryptBlockFn(k, blk)]

DecTab == [k \in Keys, blk \in Blocks |->
             CHOOSE p \in Blocks : EncTab[k, p] = blk]

EncryptBlock(k, blk) == EncTab[k, blk]

DecryptBlock(k, blk) == DecTab[k, blk]

-----------------------------------------------------------------------------
(* padding.PKCS7(CIPHER.block_size) *)

\* padder.update(data) on a fresh padder: the whole blocks come out, the rest
\* stays in the buffer.
PadderUpdate(data) ==
  LET finished == Len(data) \div B
  IN  [out |-> Take(data, finished * B), buf |-> Drop(data, finished * B)]

\* A faulty finalize: nothing is appended when the buffer is empty, so a
\* plaintext of whole blocks stays as it is.
PadderFinalizeNoFullBlock(buf) ==
  IF buf = <<>> THEN <<>>
  ELSE buf \o Repeat(B - Len(buf), B - Len(buf))

\* padder.finalize(): the buffer followed by pad_size bytes of value pad_size.
PadderFinalize(buf) ==
  LET pad_size == B - Len(buf)
  IN  buf \o Repeat(pad_size, pad_size)

\* padder.update(data) + padder.finalize()
Pad(data) ==
  LET u == PadderUpdate(data) IN u.out \o PadderFinalize(u.buf)

\* unpadder.update(data) on a fresh unpadder: all whole blocks but the last
\* come out, the rest stays in the buffer.
UnpadderUpdate(data) ==
  LET whole == Len(data) \div B
      finished == IF whole >= 1 THEN whole - 1 ELSE 0
  IN  [out |-> Take(data, finished * B), buf |-> Drop(data, finished * B)]

\* A faulty padding check: only the last byte is looked at.
PaddingValidLastByteOnly(buf) ==
  /\ buf[Len(buf)] # 0
  /\ buf[Len(buf)] <= Len(buf)

\* The padding check of the last block: the last byte v is in 1..B and the
\* last v bytes all equal v.
PaddingValid(buf) ==
  LET v == buf[Len(buf)]
  IN  /\ v # 0
      /\ v <= Len(buf)
      /\ \A i \in 0 .. (Len(buf) - 1) : i < v => buf[Len(buf) - i] = v

\* unpadder.finalize(): ValueError unless the buffer is one validly padded block.
UnpadderFinalize(buf) ==
  IF Len(buf) # B THEN [ok |-> FALSE, val |-> <<>>]
  ELSE IF ~PaddingValid(buf) THEN [ok |-> FALSE, val |-> <<>>]
  ELSE [ok |-> TRUE, val |-> Take(buf, Len(buf) - buf[Len(buf)])]

\* unpadder.update(data) + unpadder.finalize()
Unpad(data) ==
  LET u == UnpadderUpdate(data)
      f == UnpadderFinalize(u.buf)
  IN  IF f.ok THEN [ok |-> TRUE, val |-> u.out \o f.val]
      ELSE [ok |-> FALSE, val |-> <<>>]

-----------------------------------------------------------------------------
(* Cipher(CIPHER(key), modes.CBC(iv)) *)

RECURSIVE CbcEncryptBlocksNoChain(_, _, _)
\* A faulty encryptor: every block is XORed with the IV, the chain is not
\* carried on.
CbcEncryptBlocksNoChain(k, prev, data) ==
  IF Len(data) < B THEN <<>>
  ELSE EncryptBlock(k, ZipXor(Take(data, B), prev))
         \o CbcEncryptBlocksNoChain(k, prev, Drop(data, B))

RECURSIVE CbcEncryptBlocksPeek(_, _, _)
\* A faulty encryptor: the block after the current one, when there is one, is
\* mixed into the current block's input.
CbcEncryptBlocksPeek(k, prev, data) ==
  IF Len(data) < B THEN <<>>
  ELSE LET ahead == IF Len(data) >= 2 * B THEN SubSeq(data, B + 1, 2 * B)
                    ELSE Repeat(0, B)
           c == EncryptBlock(k, ZipXor(ZipXor(Take(data, B), prev), ahead))
       IN  c \o CbcEncryptBlocksPeek(k, c, Drop(data, B))

RECURSIVE CbcEncryptBlocks(_, _, _)
\* The whole blocks of data, chained: each block is XORed with the previous
\* ciphertext block (the IV for the first) and then encrypted.
CbcEncryptBlocks(k, prev, data) ==
  IF Len(data) < B THEN <<>>
  ELSE LET c == EncryptBlock(k, ZipXor(Take(data, B), prev))
       IN  c \o CbcEncryptBlocks(k, c, Drop(data, B))

RECURSIVE CbcDecryptBlocksChainPlain(_, _, _)
\* A faulty decryptor: the chain is carried on with the decrypted block
\* instead of the ciphertext block received.
CbcDecryptBlocksChainPlain(k, prev, data) ==
  IF Len(data) < B THEN <<>>
  ELSE LET p == ZipXor(DecryptBlock(k, Take(data, B)), prev)
       IN  p \o CbcDecryptBlocksChainPlain(k, p, Drop(data, B))

RECURSIVE CbcDecryptBlocks(_, _, _)
\* The whole blocks of data: each block is decrypted and then XORed with the
\* previous ciphertext block (the IV for the first).
CbcDecryptBlocks(k, prev, data) ==
  IF Len(data) < B THEN <<>>
  ELSE LET c == Take(data, B)
       IN  ZipXor(DecryptBlock(k, c), prev) \o CbcDecryptBlocks(k, c, Drop(data, B))

\* finalize() of an encryptor or decryptor: ValueError when a partial block is
\* left over, otherwise b"".
CipherFinalize(data) == Len(data) % B = 0

\* encryptor.update(data) + encryptor.finalize()
CbcEncrypt(c, data) ==
  IF CipherFinalize(data)
  THEN [ok |-> TRUE, val |-> CbcEncryptBlocks(c.key, c.iv, data)]
  ELSE [ok |-> FALSE, val |-> <<>>]

\* decryptor.update(data) + decryptor.finalize()
CbcDecrypt(c, data) ==
  IF CipherFinalize(data)
  THEN [ok |-> TRUE, val |-> CbcDecryptBlocks(c.key, c.iv, data)]
  ELSE [ok |-> FALSE, val |-> <<>>]

\* Cipher(CIPHER(key), modes.CBC(iv)): ValueError unless the IV is one block.
NewCipher(k, v) ==
  IF Len(v) = B THEN [ok |-> TRUE, val |-> [key |-> k, iv |-> v]]
  ELSE [ok |-> FALSE, val |-> [key |-> k, iv |-> v]]

-----------------------------------------------------------------------------
(* The notebook's cells *)

\* A name not bound yet.
Unset == <<>>

NoError == [type |-> "none", cell |-> 0]

\* The exception that ends cell n.
Raised(n) == [type |-> "ValueError", cell |-> n]

NoProbe == [base |-> <<>>, i |-> 0, k |-> 0]

\* b" " of the literals of cell 8, as a byte of the model.
Space == 32 % ByteMod

\* Faulty literals: the segment sits one byte late.
EmbedOneLate(seg, offset) ==
  Repeat(Space, offset + 1) \o seg
    \o Repeat(Space, IF offset + 1 + Len(seg) < B THEN B - (offset + 1 + Len(seg)) ELSE 0)

\* The block-long literals of cell 8, b"  secret        ": the segment at its
\* offset, spaces around it up to the block size.
Embed(seg, offset) ==
  LET used == offset + Len(seg)
  IN  Repeat(Space, offset) \o seg \o Repeat(Space, IF used < B THEN B - used ELSE 0)

\* Cell 4: padded_plaintext = padder.update(plaintext) + padder.finalize()
Cell4 ==
  /\ pc = "cell4"
  /\ padded_plaintext' = Pad(plaintext)
  /\ pc' = "cell5"
  /\ UNCHANGED <<key, iv, cipher, plaintext, ciphertext, decrypted_ciphertext,
                 unpadded_decrypted_ciphertext, secret_ord, rabbit_ord,
                 secret_rabbit_xor, altered_iv, error, probe>>

\* Cell 5: ciphertext = encryptor.update(padded_plaintext) + encryptor.finalize()
Cell5 ==
  /\ pc = "cell5"
  /\ LET r == CbcEncrypt(cipher, padded_plaintext)
     IN  IF r.ok
         THEN /\ ciphertext' = r.val
              /\ pc' = "cell6"
              /\ error' = error
         ELSE /\ ciphertext' = ciphertext
              /\ pc' = "failed"
              /\ error' = Raised(5)
  /\ UNCHANGED <<key, iv, cipher, plaintext, padded_plaintext, decrypted_ciphertext,
                 unpadded_decrypted_ciphertext, secret_ord, rabbit_ord,
                 secret_rabbit_xor, altered_iv, probe>>

\* Cell 6: decrypted_ciphertext = decryptor.update(ciphertext) + decryptor.finalize()
Cell6 ==
  /\ pc = "cell6"
  /\ LET r == CbcDecrypt(cipher, ciphertext)
     IN  IF r.ok
         THEN /\ decrypted_ciphertext' = r.val
              /\ pc' = "cell7"
              /\ error' = error
         ELSE /\ decrypted_ciphertext' = decrypted_ciphertext
              /\ pc' = "failed"
              /\ error' = Raised(6)
  /\ UNCHANGED <<key, iv, cipher, plaintext, padded_plaintext, ciphertext,
                 unpadded_decrypted_ciphertext, secret_ord, rabbit_ord,
                 secret_rabbit_xor, altered_iv, probe>>

\* Cell 7: unpadded_decrypted_ciphertext =
\*           unpadder.update(decrypted_ciphertext) + unpadder.finalize()
Cell7 ==
  /\ pc = "cell7"
  /\ LET r == Unpad(decrypted_ciphertext)
     IN  IF r.ok
         THEN /\ unpadded_decrypted_ciphertext' = r.val
              /\ pc' = "cell8"
              /\ error' = error
         ELSE /\ unpadded_decrypted_ciphertext' = unpadded_decrypted_ciphertext
              /\ pc' = "failed"
              /\ error' = Raised(7)
  /\ UNCHANGED <<key, iv, cipher, plaintext, padded_plaintext, ciphertext,
                 decrypted_ciphertext, secret_ord, rabbit_ord,
                 secret_rabbit_xor, altered_iv, probe>>

\* Cell 8: the two literals and their XOR, for the segment `known` the
\* attacker knows at `offset` and the segment `desired` that is to replace it.
\* probe keeps the attacker's choice: the desired segment, the offset and the
\* length of the known segment.
Cell8(offset, known, desired) ==
  /\ pc = "cell8"
  /\ secret_ord' = Embed(known, offset)
  /\ rabbit_ord' = Embed(desired, offset)
  /\ secret_rabbit_xor' = ZipXor(Embed(known, offset), Embed(desired, offset))
  /\ probe' = [base |-> desired, i |-> offset, k |-> Len(known)]
  /\ pc' = "cell9"
  /\ UNCHANGED <<key, iv, cipher, plaintext, padded_plaintext, ciphertext,
                 decrypted_ciphertext, unpadded_decrypted_ciphertext,
                 altered_iv, error>>

\* A faulty cell 9: the XOR of the two literals is taken as the new IV.
AlterIvDeltaOnly(v, delta) == Take(delta, Len(v))

\* [i ^ sr for i, sr in zip(iv_ord, secret_rabbit_xor)]
AlterIv(v, delta) == ZipXor(v, delta)

\* Cell 9: altered_iv = bytes(altered_iv_arr)
Cell9 ==
  /\ pc = "cell9"
  /\ altered_iv' = AlterIv(iv, secret_rabbit_xor)
  /\ pc' = "cell10"
  /\ UNCHANGED <<key, iv, cipher, plaintext, padded_plaintext, ciphertext,
                 decrypted_ciphertext, unpadded_decrypted_ciphertext,
                 secret_ord, rabbit_ord, secret_rabbit_xor, error, probe>>

\* A faulty cell 10: the altered IV is also written over the global iv.
Cell10OverwritesIv ==
  /\ pc = "cell10"
  /\ LET c == NewCipher(key, altered_iv)
         d == CbcDecrypt(c.val, ciphertext)
         u == Unpad(d.val)
     IN  /\ cipher' = IF c.ok THEN c.val ELSE cipher
         /\ iv' = altered_iv
         /\ decrypted_ciphertext' =
              IF c.ok /\ d.ok THEN d.val ELSE decrypted_ciphertext
         /\ unpadded_decrypted_ciphertext' =
              IF c.ok /\ d.ok /\ u.ok THEN u.val ELSE unpadded_decrypted_ciphertext
         /\ pc' = IF c.ok /\ d.ok /\ u.ok THEN "done" ELSE "failed"
         /\ error' = IF c.ok /\ d.ok /\ u.ok THEN error ELSE Raised(10)
  /\ UNCHANGED <<key, plaintext, padded_plaintext, ciphertext,
                 secret_ord, rabbit_ord, secret_rabbit_xor, altered_iv, probe>>

\* Cell 10: cipher is rebound to a Cipher with altered_iv, then the ciphertext
\* is decrypted and unpadded again.  A statement that raises ends the cell;
\* the assignments before it stay.
Cell10 ==
  /\ pc = "cell10"
  /\ LET c == NewCipher(key, altered_iv)
         d == CbcDecrypt(c.val, ciphertext)
         u == Unpad(d.val)
     IN  /\ cipher' = IF c.ok THEN c.val ELSE cipher
         /\ decrypted_ciphertext' =
              IF c.ok /\ d.ok THEN d.val ELSE decrypted_ciphertext
         /\ unpadded_decrypted_ciphertext' =
              IF c.ok /\ d.ok /\ u.ok THEN u.val ELSE unpadded_decrypted_ciphertext
         /\ pc' = IF c.ok /\ d.ok /\ u.ok THEN "done" ELSE "failed"
         /\ error' = IF c.ok /\ d.ok /\ u.ok THEN error ELSE Raised(10)
  /\ UNCHANGED <<key, iv, plaintext, padded_plaintext, ciphertext,
                 secret_ord, rabbit_ord, secret_rabbit_xor, altered_iv, probe>>

-----------------------------------------------------------------------------
(* The notebook, run from top to bottom *)

\* The globals no cell has bound yet.
Fresh ==
  /\ padded_plaintext = Unset
  /\ ciphertext = Unset
  /\ decrypted_ciphertext = Unset
  /\ unpadded_decrypted_ciphertext = Unset
  /\ secret_ord = Unset
  /\ rabbit_ord = Unset
  /\ secret_rabbit_xor = Unset
  /\ altered_iv = Unset
  /\ error = NoError
  /\ probe = NoProbe

\* Cells 2 and 3: a random key and IV, the cipher object, the plaintext.
Init ==
  /\ key \in Keys
  /\ iv \in Blocks
  /\ cipher = [key |-> key, iv |-> iv]
  /\ plaintext \in BytesUpTo(MaxLen)
  /\ pc = "cell4"
  /\ Fresh

\* Cell 8 for an attacker who knows the bytes of the first block at
\* [offset, offset+len) and picks what replaces them.
Attack ==
  \E offset \in 0 .. B :
    \E len \in 0 .. (B - offset) :
      \E desired \in BytesOfLen(len) :
        Cell8(offset, SubSeq(padded_plaintext, offset + 1, offset + len), desired)

Next == Cell4 \/ Cell5 \/ Cell6 \/ Cell7 \/ Attack \/ Cell9 \/ Cell10

Spec == Init /\ [][Next]_vars

-----------------------------------------------------------------------------
(* Claims about the notebook run *)

AfterCell10 == pc \in {"done", "failed"}

\* What decrypting the ciphertext with the original key and IV gives.
OriginalDecryption == CbcDecrypt([key |-> key, iv |-> iv], ciphertext)

\* Byte j lies in the range the attacker targets.
InRange(j) == probe.i < j /\ j <= probe.i + probe.k

\* C1: padding, encrypting, decrypting and unpadding gives back the plaintext,
\* whatever the key, the IV and the plaintext's length: cells 4 to 7 never
\* raise, cell 6 restores the padded plaintext and cell 7 the plaintext.
RoundTrip ==
  /\ pc \in {"cell7", "cell8", "cell9", "cell10"} =>
       decrypted_ciphertext = padded_plaintext
  /\ pc \in {"cell8", "cell9", "cell10"} =>
       unpadded_decrypted_ciphertext = plaintext
  /\ pc = "failed" => error = Raised(10)

\* A plaintext of exactly one block, padded to two, has made the round trip.
RoundTripWitness ==
  /\ pc = "cell8"
  /\ Len(plaintext) = B
  /\ Len(ciphertext) = 2 * B
  /\ unpadded_decrypted_ciphertext = plaintext

\* C2: decrypting with the altered IV changes the original decryption in the
\* targeted bytes of the first block only, and there it gives the desired
\* segment, when the segments have one length, fit the block and the known
\* segment is what the first block holds.
IvMalleability ==
  ( /\ AfterCell10
    /\ Len(probe.base) = probe.k
    /\ probe.i + probe.k <= B
    /\ SubSeq(secret_ord, probe.i + 1, probe.i + probe.k)
         = SubSeq(OriginalDecryption.val, probe.i + 1, probe.i + probe.k) )
  => /\ Len(decrypted_ciphertext) = Len(OriginalDecryption.val)
     /\ \A j \in 1 .. Len(decrypted_ciphertext) :
          decrypted_ciphertext[j] =
            IF InRange(j) THEN probe.base[j - probe.i]
            ELSE OriginalDecryption.val[j]

\* A two-block ciphertext was decrypted with an IV altered in both bytes.
IvMalleabilityWitness ==
  /\ AfterCell10
  /\ probe.k = B
  /\ Len(ciphertext) = 2 * B
  /\ \A j \in 1 .. B : decrypted_ciphertext[j] # padded_plaintext[j]

\* C3: when the targeted range lies within the message bytes of the first
\* block, cell 10 raises nothing and the unpadded result is the plaintext with
\* that range replaced by the desired segment, at the same length.
AttackUndetected ==
  ( /\ AfterCell10
    /\ probe.i + probe.k <= Min(B, Len(plaintext)) )
  => /\ pc = "done"
     /\ error = NoError
     /\ Len(unpadded_decrypted_ciphertext) = Len(plaintext)
     /\ \A j \in 1 .. Len(plaintext) :
          unpadded_decrypted_ciphertext[j] =
            IF InRange(j) THEN probe.base[j - probe.i] ELSE plaintext[j]

\* The second byte of a two-byte message was replaced and nothing was raised.
AttackUndetectedWitness ==
  /\ pc = "done"
  /\ probe.i = 1
  /\ probe.k = 1
  /\ Len(plaintext) = 2
  /\ unpadded_decrypted_ciphertext[2] # plaintext[2]
  /\ unpadded_decrypted_ciphertext[1] = plaintext[1]

\* C4: the padded plaintext is the plaintext followed by padLen bytes of value
\* padLen, padLen = B - (len mod B); its length is a multiple of B greater
\* than the plaintext's, and a plaintext of whole blocks gets B more bytes.
PadAppends ==
  pc # "cell4" =>
    LET padLen == B - (Len(plaintext) % B)
    IN  /\ padded_plaintext = plaintext \o Repeat(padLen, padLen)
        /\ Len(padded_plaintext) % B = 0
        /\ Len(padded_plaintext) > Len(plaintext)
        /\ (Len(plaintext) % B = 0 => Len(padded_plaintext) = Len(plaintext) + B)

\* A plaintext of whole blocks (the empty one too) has been padded.
PadAppendsWitness ==
  /\ pc = "cell5"
  /\ Len(plaintext) % B = 0
  /\ Len(padded_plaintext) = Len(plaintext) + B

-----------------------------------------------------------------------------
(* The unpadder on any byte string *)

\* Cell 7 is about to run on a byte string of any length and content.
InitUnpad ==
  /\ key = 0
  /\ iv = Repeat(0, B)
  /\ cipher = [key |-> key, iv |-> iv]
  /\ plaintext = Unset
  /\ padded_plaintext = Unset
  /\ ciphertext = Unset
  /\ decrypted_ciphertext \in BytesUpTo(MaxData)
  /\ unpadded_decrypted_ciphertext = Unset
  /\ secret_ord = Unset
  /\ rabbit_ord = Unset
  /\ secret_rabbit_xor = Unset
  /\ altered_iv = Unset
  /\ pc = "cell7"
  /\ error = NoError
  /\ probe = NoProbe

NextUnpad == Cell7

SpecUnpad == InitUnpad /\ [][NextUnpad]_vars

\* The last byte of the data does not describe a padding of the data.
BadPadding(data) ==
  LET v == data[Len(data)]
  IN  \/ v = 0
      \/ v > B
      \/ Len(data) < v
      \/ \E j \in 1 .. Len(data) : j > Len(data) - v /\ data[j] # v

\* Cell 7 raised and bound nothing.
UnpadFailed ==
  /\ pc = "failed"
  /\ error = Raised(7)
  /\ unpadded_decrypted_ciphertext = Unset

\* Cell 7 returned the data without its last v bytes.
UnpadStripped ==
  /\ pc = "cell8"
  /\ error = NoError
  /\ unpadded_decrypted_ciphertext =
       Take(decrypted_ciphertext,
            Len(decrypted_ciphertext) - decrypted_ciphertext[Len(decrypted_ciphertext)])

\* C5 as stated: unpad fails when the last byte v is 0, or v > B, or the data
\* is shorter than v, or the last v bytes are not all v, and in every other
\* case returns the data without its last v bytes.
UnpadAsStated ==
  (pc # "cell7" /\ decrypted_ciphertext # <<>>) =>
    IF BadPadding(decrypted_ciphertext) THEN UnpadFailed ELSE UnpadStripped

\* C5 amended: that holds for data of one or more whole blocks; data of any
\* other length, the empty string too, is refused.
UnpadWholeBlocks ==
  pc # "cell7" =>
    IF decrypted_ciphertext = <<>> \/ Len(decrypted_ciphertext) % B # 0
    THEN UnpadFailed
    ELSE IF BadPadding(decrypted_ciphertext) THEN UnpadFailed ELSE UnpadStripped

\* Two blocks ending in a full block of padding were unpadded to one block.
UnpadWholeBlocksWitness ==
  /\ pc = "cell8"
  /\ Len(decrypted_ciphertext) = 2 * B
  /\ Len(unpadded_decrypted_ciphertext) = B

-----------------------------------------------------------------------------
(* The encryptor and the decryptor on any byte string *)

\* Cell 5 is about to run on any byte string as padded plaintext (probe.i = 5),
\* or cell 6 on any byte string as ciphertext (probe.i = 6).
InitLen ==
  /\ key \in Keys
  /\ iv \in Blocks
  /\ cipher = [key |-> key, iv |-> iv]
  /\ plaintext = Unset
  /\ \/ /\ pc = "cell5"
        /\ padded_plaintext \in BytesUpTo(2 * B)
        /\ ciphertext = Unset
        /\ probe = [base |-> <<>>, i |-> 5, k |-> 0]
     \/ /\ pc = "cell6"
        /\ padded_plaintext = Unset
        /\ ciphertext \in BytesUpTo(2 * B)
        /\ probe = [base |-> <<>>, i |-> 6, k |-> 0]
  /\ decrypted_ciphertext = Unset
  /\ unpadded_decrypted_ciphertext = Unset
  /\ secret_ord = Unset
  /\ rabbit_ord = Unset
  /\ secret_rabbit_xor = Unset
  /\ altered_iv = Unset
  /\ error = NoError

NextLen == Cell5 \/ Cell6

SpecLen == InitLen /\ [][NextLen]_vars

\* Cell 5 has run on the byte string it was given.
EncryptRan == probe.i = 5 /\ pc # "cell5"

\* Cell 6 has run.
DecryptRan == pc \in {"cell7", "failed"} /\ error # Raised(5)

\* C7 as stated: encrypt fails on a length that is no multiple of B, decrypt
\* fails on such a length and on the empty ciphertext, a failure produces
\* nothing, and an accepted input gives an output of its own length.
LengthValidation ==
  /\ EncryptRan =>
       IF Len(padded_plaintext) % B # 0
       THEN error = Raised(5) /\ ciphertext = Unset
       ELSE error # Raised(5) /\ Len(ciphertext) = Len(padded_plaintext)
  /\ DecryptRan =>
       IF Len(ciphertext) % B # 0 \/ ciphertext = <<>>
       THEN error = Raised(6) /\ decrypted_ciphertext = Unset
       ELSE error = NoError /\ Len(decrypted_ciphertext) = Len(ciphertext)

\* What the decryptor does: only a length that is no multiple of B is refused.
LengthValidationOfCode ==
  /\ EncryptRan =>
       IF Len(padded_plaintext) % B # 0
       THEN error = Raised(5) /\ ciphertext = Unset
       ELSE error # Raised(5) /\ Len(ciphertext) = Len(padded_plaintext)
  /\ DecryptRan =>
       IF Len(ciphertext) % B # 0
       THEN error = Raised(6) /\ decrypted_ciphertext = Unset
       ELSE error = NoError /\ Len(decrypted_ciphertext) = Len(ciphertext)

-----------------------------------------------------------------------------
(* Cells 8 and 9 on any segments and offset *)

\* Cell 8 is about to run.
InitAttack ==
  /\ key = 0
  /\ iv \in Blocks
  /\ cipher = [key |-> key, iv |-> iv]
  /\ plaintext = Unset
  /\ pc = "cell8"
  /\ Fresh

\* Cell 8 for any offset and any two segments, of one length or not, reaching
\* past the block or not.
AnyAttack ==
  \E offset \in 0 .. B :
    \E known \in BytesUpTo(B) :
      \E desired \in BytesUpTo(B) :
        Cell8(offset, known, desired)

NextAttack == AnyAttack \/ Cell9

SpecAttack == InitAttack /\ [][NextAttack]_vars

\* C8 as stated: with segments of different lengths, or a segment reaching
\* past the block, computing the altered IV fails and yields no IV.
TamperedIvValidated ==
  (pc = "cell10" /\ (Len(probe.base) # probe.k \/ probe.i + probe.k > B)) =>
    (error = Raised(9) /\ altered_iv = Unset)

-----------------------------------------------------------------------------
(* Decrypting a ciphertext with one bit flipped *)

\* The bytes the ciphertexts and plaintexts below are drawn from.
SampleBytes == {0, ByteMod - 1}

\* Byte strings of n blocks over the sample bytes.
SampleBlocks(n) == [1 .. (n * B) -> SampleBytes]

\* data with bit k of its block i flipped (blocks from 1, bits from 0).
FlipBit(data, i, k) ==
  LET at == ((i - 1) * B) + (k \div ByteBits) + 1
  IN  [data EXCEPT ![at] = XorTab[data[at], 2 ^ (k % ByteBits)]]

\* Block j of data.
Block(data, j) == SubSeq(data, ((j - 1) * B) + 1, j * B)

\* Cell 6 is about to run on a ciphertext of n >= 2 blocks in which bit
\* probe.k of block probe.i < n was flipped; probe.base is the ciphertext
\* before the flip.
InitFlip ==
  /\ key \in Keys
  /\ iv \in Blocks
  /\ cipher = [key |-> key, iv |-> iv]
  /\ plaintext = Unset
  /\ padded_plaintext = Unset
  /\ \E n \in 2 .. MaxFlipBlocks :
       \E base \in SampleBlocks(n) :
         \E i \in 1 .. (n - 1) :
           \E k \in 0 .. ((B * ByteBits) - 1) :
             /\ ciphertext = FlipBit(base, i, k)
             /\ probe = [base |-> base, i |-> i, k |-> k]
  /\ decrypted_ciphertext = Unset
  /\ unpadded_decrypted_ciphertext = Unset
  /\ secret_ord = Unset
  /\ rabbit_ord = Unset
  /\ secret_rabbit_xor = Unset
  /\ altered_iv = Unset
  /\ pc = "cell6"
  /\ error = NoError

NextFlip == Cell6

SpecFlip == InitFlip /\ [][NextFlip]_vars

\* C6: with one bit k of ciphertext block i < n flipped, the decryption has
\* block i+1 changed in exactly bit k and every block but i and i+1 unchanged.
ChainingConfinement ==
  pc = "cell7" =>
    LET original == CbcDecrypt(cipher, probe.base).val
    IN  /\ Len(decrypted_ciphertext) = Len(original)
        /\ \A j \in 1 .. (Len(original) \div B) :
             IF j = probe.i + 1
             THEN Block(decrypted_ciphertext, j)
                    = FlipBit(Block(original, j), 1, probe.k)
             ELSE j # probe.i =>
                    Block(decrypted_ciphertext, j) = Block(original, j)

\* A bit of the first of three blocks was flipped: the first plaintext block
\* changed, the second differs from the original, the third does not.
ChainingConfinementWitness ==
  /\ pc = "cell7"
  /\ Len(ciphertext) = 3 * B
  /\ probe.i = 1
  /\ Block(decrypted_ciphertext, 1) # Block(CbcDecrypt(cipher, probe.base).val, 1)
  /\ Block(decrypted_ciphertext, 2) # Block(CbcDecrypt(cipher, probe.base).val, 2)
  /\ Block(decrypted_ciphertext, 3) = Block(CbcDecrypt(cipher, probe.base).val, 3)

-----------------------------------------------------------------------------
(* Encrypting two padded plaintexts under one key and IV *)

SamplePlaintexts == UNION {SampleBlocks(n) : n \in 1 .. MaxSeqBlocks}

\* Cell 5 is about to run on a padded plaintext; probe.base is another one.
InitSeq ==
  /\ key \in Keys
  /\ iv \in Blocks
  /\ cipher = [key |-> key, iv |-> iv]
  /\ plaintext = Unset
  /\ padded_plaintext \in SamplePlaintexts
  /\ \E other \in SamplePlaintexts : probe = [base |-> other, i |-> 0, k |-> 0]
  /\ ciphertext = Unset
  /\ decrypted_ciphertext = Unset
  /\ unpadded_decrypted_ciphertext = Unset
  /\ secret_ord = Unset
  /\ rabbit_ord = Unset
  /\ secret_rabbit_xor = Unset
  /\ altered_iv = Unset
  /\ pc = "cell5"
  /\ error = NoError

NextSeq == Cell5

SpecSeq == InitSeq /\ [][NextSeq]_vars

\* The two byte strings have n blocks or more and the same first n blocks.
AgreeOn(n, xs, ys) ==
  /\ Len(xs) >= n * B
  /\ Len(ys) >= n * B
  /\ Take(xs, n * B) = Take(ys, n * B)

\* C9: two padded plaintexts with the same first n blocks have, under one key
\* and IV, ciphertexts with the same first n blocks, whatever follows.
SequentialDependency ==
  pc = "cell6" =>
    \A n \in 0 .. MaxSeqBlocks :
      AgreeOn(n, padded_plaintext, probe.base) =>
        AgreeOn(n, ciphertext, CbcEncrypt(cipher, probe.base).val)

\* Two plaintexts of two blocks with the same first and another second block
\* were encrypted: the ciphertexts differ, in the second block only.
SequentialDependencyWitness ==
  /\ pc = "cell6"
  /\ Len(padded_plaintext) = 2 * B
  /\ Len(probe.base) = 2 * B
  /\ AgreeOn(1, padded_plaintext, probe.base)
  /\ padded_plaintext # probe.base
  /\ ciphertext # CbcEncrypt(cipher, probe.base).val

====
